---- MODULE Spec2Model ----
(***************************************************************************)
(* sess: the session resolution engine (session.Manager) over its three    *)
(* ports: the multiplexer (TmuxClient), the project launcher               *)
(* (TmuxinatorClient) and the configuration loader (ConfigLoader).         *)
(*                                                                         *)
(* Names are Go strings, modelled as sequences of byte values, so that the *)
(* comparison used by the sort is the lexicographic one of Go.             *)
(***************************************************************************)
EXTENDS Integers, Sequences, FiniteSets, TLC

\* ------------------------------------------------------------------ bounds
MaxLive == 2
MaxProjects == 2
MaxDefaults == 2

\* the session names used: "a", "ab", "b" over the bytes 1 ("a") and 2 ("b")
Names == {<<1>>, <<1, 2>>, <<2>>}

\* window counts of the live sessions of the listing stubs
ListWindowCounts == {1}

\* the largest window count a live session reaches
MaxWindows == 2

\* the window counts the adapter reports: 0 when the count does not parse
WindowCounts == 0..MaxWindows

\* ------------------------------------------------------------------- state
VARIABLES
    live,         \* multiplexer: the live sessions, as listed: [name, windows]
    projects,     \* launcher: the project names, as listed
    defaults,     \* config: the declared default entries of the platform
    installed,    \* launcher: IsInstalled()
    portErr,      \* which read calls of the ports fail: [list, proj, cfg]
    listResult,   \* the slice returned by the last ListAll
    listErr,      \* the error returned by the last ListAll
    prevResult,   \* the slice returned by the ListAll before the last one
    listCalls,    \* ListAll calls since the ports last changed (capped at 2)
    inTmux,       \* multiplexer: IsInsideTmux(), the TMUX environment variable
    raw,          \* what the adapters read: launcher output, config file, home
    op,           \* the engine operation the caller invoked ("none" before)
    arg,          \* its name argument
    pc,           \* the position of the running operation ("done" when idle)
    se,           \* the answers SessionExists received: [live, proj, cfg]
    cos,          \* the answers CreateOrSwitch received: [live, proj, cfg]
    calls,        \* the side-effecting port calls the operation has issued
    cmds,         \* the commands the adapters ran for those calls, in order
    ret           \* what the operation returned: [err, val]

worldVars == <<live, projects, defaults, installed, portErr, inTmux, raw>>
listVars == <<listResult, listErr, prevResult, listCalls>>
opVars == <<op, arg, pc, se, cos, calls, cmds, ret>>
vars == <<worldVars, listVars, opVars>>

\* ----------------------------------------------------------- session types
SessionTypeTmux == "tmux"
SessionTypeTmuxinator == "tmuxinator"
SessionTypeDefault == "default"

\* A Session value. Its strings are Go strings, sequences of byte values;
\* the zero value is <<>>. CreatedAt is left out: the adapter sets it and
\* the engine never reads it.
Session(name, type, windows, dir, desc, active, project) ==
    [Name |-> name, Type |-> type, WindowCount |-> windows, Directory |-> dir,
     Description |-> desc, IsActive |-> active, TmuxinatorProject |-> project]

SessionConfig(name, desc, dir, project) ==
    [Name |-> name, Description |-> desc, Directory |-> dir,
     TmuxinatorProject |-> project]

\* ------------------------------------------------------------------- texts
\* The texts shown to the user are Go strings too: sequences of byte values,
\* the ASCII codes of their characters. The bytes 1 and 2 of the names stand
\* for "a" and "b".
\* "Test default"
TextTestDefault ==
    <<84, 101, 115, 116, 32, 100, 101, 102, 97, 117, 108, 116>>

\* "/home/u/dir1"
TextDir1 ==
    <<47, 104, 111, 109, 101, 47, 117, 47, 100, 105, 114, 49>>

\* "/home/u/dir2"
TextDir2 ==
    <<47, 104, 111, 109, 101, 47, 117, 47, 100, 105, 114, 50>>

\* "/home/u"
TextHome == <<47, 104, 111, 109, 101, 47, 117>>

\* "1 window"
TextOneWindow ==
    <<49, 32, 119, 105, 110, 100, 111, 119>>

\* " windows"
TextWindows ==
    <<32, 119, 105, 110, 100, 111, 119, 115>>

\* " ("
TextOpen ==
    <<32, 40>>

\* ")"
TextClose ==
    <<41>>

\* " (tmuxinator)"
TextTmuxinatorMark ==
    <<32, 40, 116, 109, 117, 120, 105, 110, 97, 116, 111, 114, 41>>

\* " (not started)"
TextNotStartedMark ==
    <<32, 40, 110, 111, 116, 32, 115, 116, 97, 114, 116, 101, 100, 41>>

\* "tmuxinator project"
TextTmuxinatorProject ==
    <<116, 109, 117, 120, 105, 110, 97, 116, 111, 114, 32, 112, 114, 111,
    106, 101, 99, 116>>

\* "default: "
TextDefaultPrefix ==
    <<100, 101, 102, 97, 117, 108, 116, 58, 32>>

\* "default (not started)"
TextDefaultNotStarted ==
    <<100, 101, 102, 97, 117, 108, 116, 32, 40, 110, 111, 116, 32, 115,
    116, 97, 114, 116, 101, 100, 41>>

\* "new session"
TextNewSession ==
    <<110, 101, 119, 32, 115, 101, 115, 115, 105, 111, 110>>

\* the byte of the decimal digit d
Digit(d) == 48 + d

\* fmt.Sprintf("%d", n) for n >= 0: the decimal digits of n
RECURSIVE Itoa(_)
Itoa(n) ==
    IF n < 10 THEN <<Digit(n)>> ELSE Itoa(n \div 10) \o <<Digit(n % 10)>>

\* every count written in the plural
FormatWindowCountPlural(count) == Itoa(count) \o TextWindows

\* formatWindowCount: "1 window", else "<count> windows"
FormatWindowCount(count) ==
    IF count = 1 THEN TextOneWindow ELSE Itoa(count) \o TextWindows

\* Session.DisplayInfo
DisplayInfo(s) ==
    CASE s.Type = SessionTypeTmux ->
           s.Name \o TextOpen \o FormatWindowCount(s.WindowCount) \o TextClose
      [] s.Type = SessionTypeTmuxinator -> s.Name \o TextTmuxinatorMark
      [] s.Type = SessionTypeDefault -> s.Name \o TextNotStartedMark
      [] OTHER -> s.Name

\* The declared default entries the configuration files are drawn from.
ConfigEntries ==
    { SessionConfig(<<1>>, <<>>, <<>>, <<>>),
      SessionConfig(<<1, 2>>, TextTestDefault, TextDir1, <<>>),
      SessionConfig(<<2>>, <<>>, TextDir2, <<1, 2>>) }

\* ------------------------------------------------------------------- ports
\* A port answer is a value and an error flag.
Answer(val, err) == [val |-> val, err |-> err]

\* a live record built without the active mark
LiveRecordInactive(l) ==
    Session(l.name, SessionTypeTmux, l.windows, <<>>, <<>>, FALSE, <<>>)

\* the records the multiplexer adapter builds from the listing
LiveRecord(l) ==
    Session(l.name, SessionTypeTmux, l.windows, <<>>, <<>>, TRUE, <<>>)

TmuxListSessions ==
    Answer([i \in 1..Len(live) |-> LiveRecord(live[i])], portErr.list)

TmuxinatorIsInstalled == installed

TmuxinatorListProjects == Answer(projects, portErr.proj)

LoadDefaultSessions == Answer(defaults, portErr.cfg)

\* ------------------------------------------------------------ pure helpers
\* Go's s < t on strings: bytewise lexicographic, a proper prefix is smaller
RECURSIVE StrLess(_, _)
StrLess(s, t) ==
    IF t = <<>> THEN FALSE
    ELSE IF s = <<>> THEN TRUE
    ELSE IF Head(s) # Head(t) THEN Head(s) < Head(t)
    ELSE StrLess(Tail(s), Tail(t))

NameLess(x, y) == StrLess(x.Name, y.Name)

\* sort.Slice on a slice of at most 12 elements is an insertion sort: each
\* element moves left while it is less than its left neighbour
RECURSIVE InsertLeft(_, _)
InsertLeft(s, j) ==
    IF j > 1 /\ NameLess(s[j], s[j - 1])
    THEN InsertLeft([s EXCEPT ![j] = s[j - 1], ![j - 1] = s[j]], j - 1)
    ELSE s

RECURSIVE SortFrom(_, _)
SortFrom(s, i) ==
    IF i > Len(s) THEN s ELSE SortFrom(InsertLeft(s, i), i + 1)

\* the slice left as accumulated
SortByNameSkipped(s) == s

SortByName(s) == SortFrom(s, 2)

NamesOf(s) == { s[i].Name : i \in 1..Len(s) }

\* ----------------------------------------------------------------- ListAll
\* the slice of the previous call kept
InitialSessionsReused(old) == old

\* sessions := []Session{}  -- a fresh slice on every call
InitialSessions(old) == <<>>

\* the listing used although it failed
WithLiveUnchecked(sessions, ans) == sessions \o ans.val

\* step 1: the live sessions, unless the listing failed
WithLive(sessions, ans) ==
    IF ans.err THEN sessions ELSE sessions \o ans.val

\* step 2: the launcher projects not already present; acc = [s, names]
RECURSIVE AddProjects(_, _)
AddProjects(acc, projs) ==
    IF projs = <<>> THEN acc
    ELSE LET p == Head(projs) IN
         IF p \notin acc.names
         THEN AddProjects(
                [s |-> Append(acc.s, Session(p, SessionTypeTmuxinator, 0, <<>>,
                                             <<>>, FALSE, <<>>)),
                 names |-> acc.names \cup {p}], Tail(projs))
         ELSE AddProjects(acc, Tail(projs))

\* the projects listed whether or not the launcher is installed
WithProjectsUnguarded(acc, isInstalled, ans) ==
    IF ~ans.err THEN AddProjects(acc, ans.val) ELSE acc

WithProjects(acc, isInstalled, ans) ==
    IF isInstalled /\ ~ans.err THEN AddProjects(acc, ans.val) ELSE acc

\* step 3: the declared defaults not already present
RECURSIVE AddDefaults(_, _)
AddDefaults(acc, cfgs) ==
    IF cfgs = <<>> THEN acc
    ELSE LET c == Head(cfgs) IN
         IF c.Name \notin acc.names
         THEN AddDefaults(
                [s |-> Append(acc.s, Session(c.Name, SessionTypeDefault, 0,
                                             c.Directory, c.Description,
                                             FALSE, <<>>)),
                 names |-> acc.names \cup {c.Name}], Tail(cfgs))
         ELSE AddDefaults(acc, Tail(cfgs))

WithDefaults(acc, ans) ==
    IF ~ans.err THEN AddDefaults(acc, ans.val) ELSE acc

\* the error ListAll returns: always nil
ListAllError(liveAns, projAns, cfgAns) == FALSE

\* Manager.ListAll on the answers of the three ports
ListAllOn(old, liveAns, isInstalled, projAns, cfgAns) ==
    LET s1 == WithLive(InitialSessions(old), liveAns)
        a1 == [s |-> s1, names |-> NamesOf(s1)]
        a2 == WithProjects(a1, isInstalled, projAns)
        a3 == WithDefaults(a2, cfgAns)
    IN  Answer(SortByName(a3.s), ListAllError(liveAns, projAns, cfgAns))

\* ------------------------------------------------------------------ actions
BoundedSeq(S, n) == UNION { [1..k -> S] : k \in 0..n }

LiveEntries == [name : Names, windows : ListWindowCounts]

\* no slice is held before the first call
NoResult == <<>>

NoAnswers == [live |-> "-", proj |-> "-", cfg |-> "-"]

NoReturn == [err |-> "nil", val |-> "-", about |-> <<>>]

\* nothing for the adapters to read: the ports answer from the listings
NoRaw ==
    [listing |-> <<>>, listFails |-> FALSE, file |-> <<>>,
     fileFails |-> FALSE, home |-> <<>>]

\* no operation has been invoked
Idle ==
    /\ op = "none"
    /\ arg = <<>>
    /\ pc = "done"
    /\ se = NoAnswers
    /\ cos = NoAnswers
    /\ calls = <<>>
    /\ cmds = <<>>
    /\ ret = NoReturn

\* the engine is built over three stubs; nothing has been called yet
InitList ==
    /\ live \in BoundedSeq(LiveEntries, MaxLive)
    /\ projects \in BoundedSeq(Names, MaxProjects)
    /\ defaults \in BoundedSeq(ConfigEntries, MaxDefaults)
    /\ installed \in BOOLEAN
    /\ portErr \in [list : BOOLEAN, proj : BOOLEAN, cfg : BOOLEAN]
    /\ portErr.proj => installed    \* an unavailable launcher is never asked
    /\ listResult = NoResult
    /\ listErr = FALSE
    /\ prevResult = NoResult
    /\ listCalls = 0
    /\ inTmux = FALSE
    /\ raw = NoRaw
    /\ Idle

\* a call starts with nothing probed, issued or returned
Fresh ==
    /\ se' = NoAnswers
    /\ cos' = NoAnswers
    /\ calls' = <<>>
    /\ cmds' = <<>>
    /\ ret' = NoReturn

\* the slice of an earlier ListAll is no longer held
Dropped ==
    /\ listResult' = NoResult
    /\ listErr' = FALSE
    /\ prevResult' = NoResult
    /\ listCalls' = 0

\* a caller runs Manager.ListAll to completion
ListAll ==
    LET r == ListAllOn(listResult, TmuxListSessions, TmuxinatorIsInstalled,
                       TmuxinatorListProjects, LoadDefaultSessions)
    IN  /\ pc = "done"
        /\ op' = "ListAll"
        /\ arg' = <<>>
        /\ pc' = "done"
        /\ Fresh
        /\ listResult' = r.val
        /\ listErr' = r.err
        /\ prevResult' = listResult
        /\ listCalls' = IF listCalls < 2 THEN listCalls + 1 ELSE 2
        /\ UNCHANGED worldVars

\* the live sessions without the i-th
KilledAt(i) ==
    [j \in 1..(Len(live) - 1) |-> IF j < i THEN live[j] ELSE live[j + 1]]

\* a live session ends outside the program; earlier results are dropped
SessionEnds ==
    /\ pc # "done" \/ op \in {"none", "ListAll"}
    /\ \E i \in 1..Len(live) : live' = KilledAt(i)
    /\ Dropped
    /\ UNCHANGED <<projects, defaults, installed, portErr, inTmux, raw,
                   opVars>>

NextList == ListAll \/ SessionEnds

SpecList == InitList /\ [][NextList]_vars

\* -------------------------------------------- the ports, call by call
LiveNames == { live[i].name : i \in 1..Len(live) }

ProjectNames == { projects[i] : i \in 1..Len(projects) }

\* a failed call carries no value
Failed == "failed"

\* TmuxClient.SessionExists(n): the truth, or a failure
SessionExistsAnswers(n) == {Answer(n \in LiveNames, FALSE), Answer(FALSE, TRUE)}

\* TmuxClient.ListSessions: the live sessions, or a failure
ListSessionsAnswers ==
    {Answer([i \in 1..Len(live) |-> LiveRecord(live[i])], FALSE),
     Answer(<<>>, TRUE)}

\* TmuxinatorClient.ProjectExists(n): the truth, or a failure
ProjectExistsAnswers(n) ==
    {Answer(n \in ProjectNames, FALSE), Answer(FALSE, TRUE)}

\* ConfigLoader.LoadDefaultSessions: the file, or a failure to read it
LoadAnswers == {LoadDefaultSessions, Answer(<<>>, TRUE)}

\* ConfigLoader.GetSessionConfig(n): the first entry named n of the loaded
\* file; a failed load and a missing entry are both errors
RECURSIVE FirstNamed(_, _)
FirstNamed(cfgs, n) ==
    IF cfgs = <<>> THEN Answer(Failed, TRUE)
    ELSE IF Head(cfgs).Name = n THEN Answer(Head(cfgs), FALSE)
    ELSE FirstNamed(Tail(cfgs), n)

GetSessionConfigOn(loaded, n) ==
    IF loaded.err THEN Answer(Failed, TRUE) ELSE FirstNamed(loaded.val, n)

\* how an operation notes the answer of a probe
Noted(ans) == IF ans.err THEN "err" ELSE IF ans.val THEN "yes" ELSE "no"

NotedConfig(loaded, ans) ==
    IF loaded.err THEN "err" ELSE IF ans.err THEN "no" ELSE "yes"

\* the side-effecting calls, each tagged with the source line that issues it
SwitchCall(n, fromTmux, line) ==
    [call |-> "SwitchToSession", name |-> n, dir |-> <<>>,
     fromTmux |-> fromTmux, line |-> line]

StartCall(n, fromTmux, line) ==
    [call |-> "StartProject", name |-> n, dir |-> <<>>,
     fromTmux |-> fromTmux, line |-> line]

CreateCall(sess, line) ==
    [call |-> "CreateSession", name |-> sess.Name, dir |-> sess.Directory,
     fromTmux |-> FALSE, line |-> line]

\* a command an adapter ran, and whether it exited with success
Ran(c, n, dir, detached, ok) ==
    [cmd |-> c, name |-> n, dir |-> dir, detached |-> detached, ok |-> ok]

\* what an adapter call comes to: the error it returns ("nil" for none), the
\* commands it ran, and whether a session came up
Outcome(err, ran, came) == [err |-> err, cmds |-> ran, came |-> came]

CanStart(n) == n \notin LiveNames /\ Len(live) < MaxLive

\* attach-session, whatever the flag
SwitchCommandAttach(fromTmux) == "attach-session"

\* if fromTmux { switch-client -t name } else { attach-session -t name }
SwitchCommand(fromTmux) ==
    IF fromTmux THEN "switch-client" ELSE "attach-session"

\* the one command of a switch: it fails when no session has that name
SwitchOutcomes(n, fromTmux, present) ==
    { Outcome(IF ok THEN "nil" ELSE "switch failed",
              <<Ran(SwitchCommand(fromTmux), n, <<>>, FALSE, ok)>>, FALSE) :
        ok \in IF present THEN BOOLEAN ELSE {FALSE} }

\* Client.SwitchToSession(name, fromTmux)
ClientSwitchToSession(n, fromTmux) ==
    SwitchOutcomes(n, fromTmux, n \in LiveNames)

\* the failure of the detached new-session passed over
CreateFailedIgnored(ok) == FALSE

\* if err := cmd.Run(); err != nil { return ... }
CreateFailed(ok) == ~ok

\* Client.CreateSession(sess): detached and then switched to from inside a
\* session, attached otherwise
ClientCreateSession(sess, inside) ==
    UNION {
      IF inside
      THEN LET first == Ran("new-session", sess.Name, sess.Directory,
                            TRUE, ok) IN
           IF CreateFailed(ok)
           THEN {Outcome("create failed", <<first>>, FALSE)}
           ELSE { Outcome(o.err, <<first>> \o o.cmds, ok) :
                    o \in SwitchOutcomes(sess.Name, TRUE,
                                         ok \/ sess.Name \in LiveNames) }
      ELSE {Outcome(IF ok THEN "nil" ELSE "create failed",
                    <<Ran("new-session", sess.Name, sess.Directory,
                          FALSE, ok)>>, ok)}
      : ok \in IF CanStart(sess.Name) THEN BOOLEAN ELSE {FALSE} }

\* TmuxinatorClient.StartProject(name, fromTmux): started with --no-attach
\* and then switched to from inside a session, started attached otherwise
TmuxinatorStartProject(n, fromTmux) ==
    UNION {
      IF fromTmux
      THEN LET first == Ran("tmuxinator start", n, <<>>, TRUE, ok) IN
           IF ~ok
           THEN {Outcome("start failed", <<first>>, FALSE)}
           ELSE { Outcome(o.err, <<first>> \o o.cmds, TRUE) :
                    o \in SwitchOutcomes(n, TRUE, TRUE) }
      ELSE {Outcome(IF ok THEN "nil" ELSE "start failed",
                    <<Ran("tmuxinator start", n, <<>>, FALSE, ok)>>, ok)}
      : ok \in IF CanStart(n) THEN BOOLEAN ELSE {FALSE} }

\* tmux kill-session -t n: fails when no session is named n
KillResults(n) ==
    {"failed to delete session"} \cup (IF n \in LiveNames THEN {"nil"} ELSE {})

\* the listings are kept by name: x enters after the k smaller entries
InsertAt(seq, x, k) ==
    [i \in 1..(Len(seq) + 1) |->
       IF i <= k THEN seq[i] ELSE IF i = k + 1 THEN x ELSE seq[i - 1]]

RemoveAt(seq, i) ==
    [j \in 1..(Len(seq) - 1) |-> IF j < i THEN seq[j] ELSE seq[j + 1]]

LiveRank(n) ==
    Cardinality({ i \in 1..Len(live) : StrLess(live[i].name, n) })

ProjectRank(n) ==
    Cardinality({ i \in 1..Len(projects) : StrLess(projects[i], n) })

ConfigRank(n) ==
    Cardinality({ i \in 1..Len(defaults) : StrLess(defaults[i].Name, n) })

Born(n) == InsertAt(live, [name |-> n, windows |-> 1], LiveRank(n))

\* the live sessions once the session named n has been killed
Killed(n, res) ==
    IF res = "nil" THEN RemoveAt(live, LiveRank(n) + 1) ELSE live

\* a call of the multiplexer adapter, and the command it runs
DeleteCall(n, line) ==
    [call |-> "DeleteSession", name |-> n, dir |-> <<>>, fromTmux |-> FALSE,
     line |-> line]

KillCall(n, line) ==
    [call |-> "kill-session", name |-> n, dir |-> <<>>, fromTmux |-> FALSE,
     line |-> line]

\* the live sessions once a session named n has come up
Started(n, o) ==
    IF o.came THEN Born(n) ELSE live

\* --------------------------------------------------------- CreateOrSwitch
\* the live session passed over
LiveBranchSkipped(ans) == FALSE

\* if exists { ... }
LiveBranch(ans) == ans.val

\* the launcher branch taken whenever the launcher is installed
LauncherBranchAlways(isInstalled, ans) == isInstalled

\* if m.tmuxinatorClient.IsInstalled() { ... if err == nil && isProject
LauncherBranch(isInstalled, ans) == isInstalled /\ ~ans.err /\ ans.val

\* if config.TmuxinatorProject != "" && m.tmuxinatorClient.IsInstalled()
\* the launcher project of a default started without asking IsInstalled
UsesLauncherUnasked(config, isInstalled) ==
    config.TmuxinatorProject # <<>>

\* if config.TmuxinatorProject != "" && m.tmuxinatorClient.IsInstalled()
UsesLauncher(config, isInstalled) ==
    config.TmuxinatorProject # <<>> /\ isInstalled

\* the session of a declared default created without its directory
DefaultSessionNoDirectory(config) ==
    Session(config.Name, SessionTypeTmux, 0, <<>>, <<>>, FALSE, <<>>)

\* the session createDefaultSession creates
DefaultSession(config) ==
    Session(config.Name, SessionTypeTmux, 0, config.Directory, <<>>, FALSE,
            <<>>)

\* the new session placed in the home directory
FallbackSessionInHome(n) ==
    Session(n, SessionTypeTmux, 0, TextHome, <<>>, FALSE, <<>>)

\* the session the last branch creates
FallbackSession(n) ==
    Session(n, SessionTypeTmux, 0, <<>>, <<>>, FALSE, <<>>)

Return(e, v) == ret' = [err |-> e, val |-> v, about |-> <<>>]

\* a failed live check taken for a negative answer
CheckFailedIgnored(ans) == FALSE

\* if err != nil { return fmt.Errorf("failed to check if session exists ...
CheckFailed(ans) == ans.err

\* the pass going on to the launcher after the switch
AfterSwitchGoesOn == "CheckLauncher"

\* return m.tmuxClient.SwitchToSession(name, inTmux)
AfterSwitch == "done"

\* exists, err := m.tmuxClient.SessionExists(name), and the switch
CheckLive ==
    /\ pc = "CheckLive"
    /\ \E ans \in SessionExistsAnswers(arg) :
         /\ cos' = [cos EXCEPT !.live = Noted(ans)]
         /\ IF CheckFailed(ans)
            THEN /\ Return("failed to check if session exists", "-")
                 /\ pc' = "done"
                 /\ UNCHANGED <<calls, cmds>>
            ELSE IF LiveBranch(ans)
            THEN \E o \in ClientSwitchToSession(arg, inTmux) :
                   /\ calls' = Append(calls, SwitchCall(arg, inTmux, 118))
                   /\ cmds' = o.cmds
                   /\ Return(o.err, "-")
                   /\ pc' = AfterSwitch
            ELSE /\ pc' = "CheckLauncher"
                 /\ UNCHANGED <<calls, cmds, ret>>
    /\ UNCHANGED <<worldVars, listVars, op, arg, se>>

\* the launcher probe, and the start of the project
CheckLauncher ==
    /\ pc = "CheckLauncher"
    /\ IF TmuxinatorIsInstalled
       THEN \E ans \in ProjectExistsAnswers(arg) :
              /\ cos' = [cos EXCEPT !.proj = Noted(ans)]
              /\ IF LauncherBranch(TmuxinatorIsInstalled, ans)
                 THEN \E o \in TmuxinatorStartProject(arg, inTmux) :
                        /\ calls' = Append(calls, StartCall(arg, inTmux, 127))
                        /\ cmds' = o.cmds
                        /\ Return(o.err, "-")
                        /\ live' = Started(arg, o)
                        /\ pc' = "done"
                 ELSE /\ pc' = "CheckDefault"
                      /\ UNCHANGED <<calls, cmds, ret, live>>
       ELSE /\ cos' = [cos EXCEPT !.proj = "skip"]
            /\ pc' = "CheckDefault"
            /\ UNCHANGED <<calls, cmds, ret, live>>
    /\ UNCHANGED <<projects, defaults, installed, portErr, inTmux, raw,
                   listVars,
                   op, arg, se>>

\* createDefaultSession(config)
CreateDefaultSession(config) ==
    IF UsesLauncher(config, TmuxinatorIsInstalled)
    THEN \E o \in TmuxinatorStartProject(config.TmuxinatorProject, inTmux) :
           /\ calls' = Append(calls, StartCall(config.TmuxinatorProject,
                                               inTmux, 150))
           /\ cmds' = o.cmds
           /\ Return(o.err, "-")
           /\ live' = Started(config.TmuxinatorProject, o)
    ELSE \E o \in ClientCreateSession(DefaultSession(config), inTmux) :
           /\ calls' = Append(calls, CreateCall(DefaultSession(config), 154))
           /\ cmds' = o.cmds
           /\ Return(o.err, "-")
           /\ live' = Started(config.Name, o)

\* the config lookup, and the materialization of the declared default
CheckDefault ==
    /\ pc = "CheckDefault"
    /\ \E loaded \in LoadAnswers :
         LET ans == GetSessionConfigOn(loaded, arg) IN
         /\ cos' = [cos EXCEPT !.cfg = NotedConfig(loaded, ans)]
         /\ IF ~ans.err
            THEN /\ CreateDefaultSession(ans.val)
                 /\ pc' = "done"
            ELSE /\ pc' = "Fallback"
                 /\ UNCHANGED <<calls, cmds, ret, live>>
    /\ UNCHANGED <<projects, defaults, installed, portErr, inTmux, raw,
                   listVars,
                   op, arg, se>>

\* not found in any source: a new basic session
Fallback ==
    /\ pc = "Fallback"
    /\ \E o \in ClientCreateSession(FallbackSession(arg), inTmux) :
         /\ calls' = Append(calls, CreateCall(FallbackSession(arg), 139))
         /\ cmds' = o.cmds
         /\ Return(o.err, "-")
         /\ live' = Started(arg, o)
    /\ pc' = "done"
    /\ UNCHANGED <<projects, defaults, installed, portErr, inTmux, raw,
                   listVars,
                   op, arg, se, cos>>

\* --------------------------------------------- SessionExists, GoToSession
\* the existence check left unused
NotFoundIgnored(exists) == FALSE

\* if !exists { return fmt.Errorf("session '%s' not found", name) }
NotFound(exists) == ~exists

\* every caller of SessionExists going on to CreateOrSwitch
ContinuesAlways(o) == TRUE

\* GoToSession goes on to CreateOrSwitch; SessionExists called from outside
\* returns its answer
Continues(o) == o = "GoToSession"

\* SessionExists returns (exists, nil) to its caller
ExistsReturns(exists) ==
    IF Continues(op)
    THEN IF NotFound(exists)
         THEN /\ ret' = [err |-> "session not found", val |-> "-",
                          about |-> arg]
              /\ pc' = "done"
         ELSE /\ pc' = "CheckLive"
              /\ UNCHANGED ret
    ELSE /\ Return("nil", IF exists THEN "true" ELSE "false")
         /\ pc' = "done"

ExistsLive ==
    /\ pc = "ExistsLive"
    /\ \E ans \in SessionExistsAnswers(arg) :
         /\ se' = [se EXCEPT !.live = Noted(ans)]
         /\ IF ans.err
            THEN /\ Return("live check failed",
                           IF op = "GoToSession" THEN "-" ELSE "false")
                 /\ pc' = "done"
            ELSE IF ans.val
            THEN ExistsReturns(TRUE)
            ELSE /\ pc' = "ExistsLauncher"
                 /\ UNCHANGED ret
    /\ UNCHANGED <<worldVars, listVars, op, arg, cos, calls, cmds>>

ExistsLauncher ==
    /\ pc = "ExistsLauncher"
    /\ IF TmuxinatorIsInstalled
       THEN \E ans \in ProjectExistsAnswers(arg) :
              /\ se' = [se EXCEPT !.proj = Noted(ans)]
              /\ IF LauncherBranch(TmuxinatorIsInstalled, ans)
                 THEN ExistsReturns(TRUE)
                 ELSE /\ pc' = "ExistsConfig"
                      /\ UNCHANGED ret
       ELSE /\ se' = [se EXCEPT !.proj = "skip"]
            /\ pc' = "ExistsConfig"
            /\ UNCHANGED ret
    /\ UNCHANGED <<worldVars, listVars, op, arg, cos, calls, cmds>>

\* a failed config lookup taken for a declared default
ConfigFoundAlways(ans) == TRUE

\* _, err = m.configLoader.GetSessionConfig(...); if err == nil
ConfigFound(ans) == ~ans.err

ExistsConfig ==
    /\ pc = "ExistsConfig"
    /\ \E loaded \in LoadAnswers :
         LET ans == GetSessionConfigOn(loaded, arg) IN
         /\ se' = [se EXCEPT !.cfg = NotedConfig(loaded, ans)]
         /\ ExistsReturns(ConfigFound(ans))
    /\ UNCHANGED <<worldVars, listVars, op, arg, cos, calls, cmds>>

\* ---------------------------------------------------------- GetSessionInfo
\* the first record of the listing named n, as the loop finds it
RECURSIVE FirstSession(_, _)
FirstSession(sessions, n) ==
    IF sessions = <<>> THEN Answer(Failed, TRUE)
    ELSE IF Head(sessions).Name = n THEN Answer(Head(sessions), FALSE)
    ELSE FirstSession(Tail(sessions), n)

\* the info of a declared default without its description
DefaultInfoNoDescription(config) == TextDefaultNotStarted

\* "default: <description>", or "default (not started)" without one
DefaultInfo(config) ==
    IF config.Description # <<>>
    THEN TextDefaultPrefix \o config.Description
    ELSE TextDefaultNotStarted

\* exists, err := m.tmuxClient.SessionExists(name)
InfoLive ==
    /\ pc = "InfoLive"
    /\ \E ans \in SessionExistsAnswers(arg) :
         /\ se' = [se EXCEPT !.live = Noted(ans)]
         /\ IF ans.err
            THEN /\ Return("live check failed", <<>>)
                 /\ pc' = "done"
            ELSE IF ans.val
            THEN /\ pc' = "InfoList"
                 /\ UNCHANGED ret
            ELSE /\ pc' = "InfoLauncher"
                 /\ UNCHANGED ret
    /\ UNCHANGED <<worldVars, listVars, op, arg, cos, calls, cmds>>

\* sessions, err := m.tmuxClient.ListSessions(), and the search for the name
InfoList ==
    /\ pc = "InfoList"
    /\ \E ans \in ListSessionsAnswers :
         IF ans.err
         THEN /\ se' = [se EXCEPT !.live = "listerr"]
              /\ Return("list failed", <<>>)
              /\ pc' = "done"
         ELSE LET found == FirstSession(ans.val, arg) IN
              IF ~found.err
              THEN /\ se' = [se EXCEPT !.live = "listed"]
                   /\ Return("nil", DisplayInfo(found.val))
                   /\ pc' = "done"
              ELSE /\ se' = [se EXCEPT !.live = "gone"]
                   /\ pc' = "InfoLauncher"
                   /\ UNCHANGED ret
    /\ UNCHANGED <<worldVars, listVars, op, arg, cos, calls, cmds>>

\* the launcher probe of GetSessionInfo
InfoLauncher ==
    /\ pc = "InfoLauncher"
    /\ IF TmuxinatorIsInstalled
       THEN \E ans \in ProjectExistsAnswers(arg) :
              /\ se' = [se EXCEPT !.proj = Noted(ans)]
              /\ IF LauncherBranch(TmuxinatorIsInstalled, ans)
                 THEN /\ Return("nil", TextTmuxinatorProject)
                      /\ pc' = "done"
                 ELSE /\ pc' = "InfoConfig"
                      /\ UNCHANGED ret
       ELSE /\ se' = [se EXCEPT !.proj = "skip"]
            /\ pc' = "InfoConfig"
            /\ UNCHANGED ret
    /\ UNCHANGED <<worldVars, listVars, op, arg, cos, calls, cmds>>

\* the config lookup of GetSessionInfo
InfoConfig ==
    /\ pc = "InfoConfig"
    /\ \E loaded \in LoadAnswers :
         LET ans == GetSessionConfigOn(loaded, arg) IN
         /\ se' = [se EXCEPT !.cfg = NotedConfig(loaded, ans)]
         /\ IF ~ans.err
            THEN Return("nil", DefaultInfo(ans.val))
            ELSE Return("nil", TextNewSession)
         /\ pc' = "done"
    /\ UNCHANGED <<worldVars, listVars, op, arg, cos, calls, cmds>>

\* ----------------------------------------------------------- DeleteSession
\* a session that is not live deleted all the same
DeleteRefusedNever(ans) == FALSE

\* if !exists { return fmt.Errorf("session '%s' does not exist", name) }
DeleteRefused(ans) == ~ans.val

\* Client.DeleteSession: exists, err := c.SessionExists(name)
DeleteCheck ==
    /\ pc = "DeleteCheck"
    /\ \E ans \in SessionExistsAnswers(arg) :
         /\ se' = [se EXCEPT !.live = Noted(ans)]
         /\ IF ans.err
            THEN /\ Return("live check failed", "-")
                 /\ pc' = "done"
            ELSE IF DeleteRefused(ans)
            THEN /\ ret' = [err |-> "session does not exist", val |-> "-",
                             about |-> arg]
                 /\ pc' = "done"
            ELSE /\ pc' = "DeleteKill"
                 /\ UNCHANGED ret
    /\ UNCHANGED <<worldVars, listVars, op, arg, cos, calls, cmds>>

\* Client.DeleteSession: tmux kill-session -t name
DeleteKill ==
    /\ pc = "DeleteKill"
    /\ \E res \in KillResults(arg) :
         /\ calls' = Append(calls, KillCall(arg, 201))
         /\ cmds' = <<Ran("kill-session", arg, <<>>, FALSE, res = "nil")>>
         /\ Return(res, "-")
         /\ live' = Killed(arg, res)
    /\ pc' = "done"
    /\ UNCHANGED <<projects, defaults, installed, portErr, inTmux, raw,
                   listVars,
                   op, arg, se, cos>>

\* ------------------------------------------------------------ the callers
CreateOrSwitch ==
    /\ pc = "done"
    /\ op' = "CreateOrSwitch"
    /\ \E n \in Names : arg' = n
    /\ pc' = "CheckLive"
    /\ Fresh
    /\ Dropped
    /\ UNCHANGED worldVars

SessionExists ==
    /\ pc = "done"
    /\ op' = "SessionExists"
    /\ \E n \in Names : arg' = n
    /\ pc' = "ExistsLive"
    /\ Fresh
    /\ Dropped
    /\ UNCHANGED worldVars

GoToSession ==
    /\ pc = "done"
    /\ op' = "GoToSession"
    /\ \E n \in Names : arg' = n
    /\ pc' = "ExistsLive"
    /\ Fresh
    /\ Dropped
    /\ UNCHANGED worldVars

\* goCmd: any error of GoToSession brings up the picker, which lists all
\* sessions before it shows them
ShowInteractiveList ==
    LET r == ListAllOn(listResult, TmuxListSessions, TmuxinatorIsInstalled,
                       TmuxinatorListProjects, LoadDefaultSessions)
    IN  /\ pc = "done"
        /\ op = "GoToSession"
        /\ ret.err # "nil"
        /\ op' = "showInteractiveList"
        /\ listResult' = r.val
        /\ listErr' = r.err
        /\ prevResult' = listResult
        /\ listCalls' = 1
        /\ UNCHANGED <<worldVars, arg, pc, se, cos, calls, cmds,
                     ret>>

GetSessionInfo ==
    /\ pc = "done"
    /\ op' = "GetSessionInfo"
    /\ \E n \in Names : arg' = n
    /\ pc' = "InfoLive"
    /\ Fresh
    /\ Dropped
    /\ UNCHANGED worldVars

\* Manager.DeleteSession hands the name to the multiplexer adapter
DeleteSession ==
    /\ pc = "done"
    /\ op' = "DeleteSession"
    /\ \E n \in Names :
         /\ arg' = n
         /\ calls' = <<DeleteCall(n, 210)>>
         /\ cmds' = <<>>
    /\ pc' = "DeleteCheck"
    /\ se' = NoAnswers
    /\ cos' = NoAnswers
    /\ ret' = NoReturn
    /\ Dropped
    /\ UNCHANGED worldVars

\* ------------------------------------------------- the world outside
\* The ports are read by running operations only: a change between two
\* operations is the same as one before the first probe of the next.
Observed == pc # "done" \/ op = "none"

SessionStarts ==
    /\ Observed
    /\ \E n \in Names :
         /\ CanStart(n)
         /\ live' = Born(n)
    /\ UNCHANGED <<projects, defaults, installed, portErr, inTmux, raw,
                   listVars,
                   opVars>>

ProjectAdded ==
    /\ Observed
    /\ Len(projects) < MaxProjects
    /\ \E n \in Names \ ProjectNames :
         projects' = InsertAt(projects, n, ProjectRank(n))
    /\ UNCHANGED <<live, defaults, installed, portErr, inTmux, raw,
                   listVars,
                   opVars>>

ProjectRemoved ==
    /\ Observed
    /\ \E i \in 1..Len(projects) : projects' = RemoveAt(projects, i)
    /\ UNCHANGED <<live, defaults, installed, portErr, inTmux, raw,
                   listVars,
                   opVars>>

DefaultAdded ==
    /\ Observed
    /\ Len(defaults) < MaxDefaults
    /\ \E c \in ConfigEntries :
         /\ c.Name \notin NamesOf(defaults)
         /\ defaults' = InsertAt(defaults, c, ConfigRank(c.Name))
    /\ UNCHANGED <<live, projects, installed, portErr, inTmux, raw,
                   listVars,
                   opVars>>

DefaultRemoved ==
    /\ Observed
    /\ \E i \in 1..Len(defaults) : defaults' = RemoveAt(defaults, i)
    /\ UNCHANGED <<live, projects, installed, portErr, inTmux, raw,
                   listVars,
                   opVars>>

LauncherChanges ==
    /\ Observed
    /\ installed' = ~installed
    /\ UNCHANGED <<live, projects, defaults, portErr, inTmux, raw,
                   listVars,
                   opVars>>

\* a window of a live session opens or closes, or its count stops parsing
\* and the adapter reports 0
WindowsChange ==
    /\ Observed
    /\ \E i \in 1..Len(live) :
         \E w \in WindowCounts \ {live[i].windows} :
           live' = [live EXCEPT ![i].windows = w]
    /\ UNCHANGED <<projects, defaults, installed, portErr, inTmux, raw,
                   listVars,
                   opVars>>

\* ---------------------------------------------------- the specification
Init ==
    /\ live = <<>>
    /\ projects = <<>>
    /\ defaults = <<>>
    /\ installed \in BOOLEAN
    /\ portErr = [list |-> FALSE, proj |-> FALSE, cfg |-> FALSE]
    /\ inTmux \in BOOLEAN
    /\ raw = NoRaw
    /\ listResult = NoResult
    /\ listErr = FALSE
    /\ prevResult = NoResult
    /\ listCalls = 0
    /\ Idle

Next ==
    \/ CreateOrSwitch \/ CheckLive \/ CheckLauncher \/ CheckDefault
    \/ Fallback
    \/ SessionExists \/ GoToSession
    \/ ExistsLive \/ ExistsLauncher \/ ExistsConfig
    \/ ShowInteractiveList
    \/ GetSessionInfo \/ InfoLive \/ InfoList \/ InfoLauncher \/ InfoConfig
    \/ DeleteSession \/ DeleteCheck \/ DeleteKill
    \/ ListAll
    \/ SessionStarts \/ SessionEnds
    \/ ProjectAdded \/ ProjectRemoved
    \/ DefaultAdded \/ DefaultRemoved
    \/ LauncherChanges

Spec == Init /\ [][Next]_vars

\* CreateOrSwitch alone, over ports that change under it.  The function is
\* straight-line code with no loop and no wait: once called, each of its
\* steps is taken.
NextPass ==
    \/ CreateOrSwitch \/ CheckLive \/ CheckLauncher \/ CheckDefault
    \/ Fallback
    \/ SessionStarts \/ SessionEnds
    \/ ProjectAdded \/ ProjectRemoved
    \/ DefaultAdded \/ DefaultRemoved
    \/ LauncherChanges

Pass == CheckLive \/ CheckLauncher \/ CheckDefault \/ Fallback

SpecPass == Init /\ [][NextPass]_vars /\ WF_vars(Pass)

\* GetSessionInfo alone, over live sessions of every window count
InitInfo ==
    /\ Init
    /\ ~inTmux

NextInfo ==
    \/ GetSessionInfo \/ InfoLive \/ InfoList \/ InfoLauncher \/ InfoConfig
    \/ SessionStarts \/ SessionEnds \/ WindowsChange
    \/ ProjectAdded \/ ProjectRemoved
    \/ DefaultAdded \/ DefaultRemoved
    \/ LauncherChanges

SpecInfo == InitInfo /\ [][NextInfo]_vars

\* a listing in strictly ascending order of its names, as tmux keeps its
\* sessions and the world actions keep the three listings
RECURSIVE Ascending(_)
Ascending(names) ==
    IF Len(names) <= 1 THEN TRUE
    ELSE StrLess(names[1], names[2]) /\ Ascending(Tail(names))

\* The operations over ports that change only through the operations
\* themselves: any world, with nothing changing while an operation runs.
InitStable ==
    /\ live \in BoundedSeq(LiveEntries, MaxLive)
    /\ Ascending([i \in 1..Len(live) |-> live[i].name])
    /\ projects \in BoundedSeq(Names, MaxProjects)
    /\ Ascending(projects)
    /\ defaults \in BoundedSeq(ConfigEntries, MaxDefaults)
    /\ Ascending([i \in 1..Len(defaults) |-> defaults[i].Name])
    /\ installed \in BOOLEAN
    /\ portErr = [list |-> FALSE, proj |-> FALSE, cfg |-> FALSE]
    /\ inTmux = FALSE
    /\ raw = NoRaw
    /\ listResult = NoResult
    /\ listErr = FALSE
    /\ prevResult = NoResult
    /\ listCalls = 0
    /\ Idle

NextStable ==
    \/ CreateOrSwitch \/ CheckLive \/ CheckLauncher \/ CheckDefault
    \/ Fallback
    \/ SessionExists \/ ExistsLive \/ ExistsLauncher \/ ExistsConfig
    \/ GetSessionInfo \/ InfoLive \/ InfoList \/ InfoLauncher \/ InfoConfig
    \/ ListAll

SpecStable == InitStable /\ [][NextStable]_vars

\* ------------------------------------------- the launcher adapter
\* the white space of strings.TrimSpace and strings.Fields, in ASCII
IsSpace(b) == b \in {9, 10, 11, 12, 13, 32}

NewLine == 10

RECURSIVE TrimLeft(_)
TrimLeft(s) ==
    IF s # <<>> /\ IsSpace(Head(s)) THEN TrimLeft(Tail(s)) ELSE s

RECURSIVE TrimRight(_)
TrimRight(s) ==
    IF s # <<>> /\ IsSpace(s[Len(s)])
    THEN TrimRight(SubSeq(s, 1, Len(s) - 1)) ELSE s

\* strings.TrimSpace
TrimSpace(s) == TrimRight(TrimLeft(s))

\* strings.Split(s, "\n"): the pieces between the separators, at least one
RECURSIVE SplitFrom(_, _, _)
SplitFrom(s, piece, done) ==
    IF s = <<>> THEN Append(done, piece)
    ELSE IF Head(s) = NewLine
    THEN SplitFrom(Tail(s), <<>>, Append(done, piece))
    ELSE SplitFrom(Tail(s), Append(piece, Head(s)), done)

Split(s) == SplitFrom(s, <<>>, <<>>)

\* strings.Fields: the maximal runs of bytes that are not white space
RECURSIVE FieldsFrom(_, _, _)
FieldsFrom(s, word, done) ==
    IF s = <<>> THEN (IF word = <<>> THEN done ELSE Append(done, word))
    ELSE IF IsSpace(Head(s))
    THEN FieldsFrom(Tail(s), <<>>,
                    IF word = <<>> THEN done ELSE Append(done, word))
    ELSE FieldsFrom(Tail(s), Append(word, Head(s)), done)

Fields(s) == FieldsFrom(s, <<>>, <<>>)

\* every line read as a line of projects, the header too
ProjectLinesAll(lines) == lines

\* if len(lines) < 2 { return []string{}, nil }, and lines[1:]
ProjectLines(lines) == IF Len(lines) < 2 THEN <<>> ELSE Tail(lines)

\* the fields of the lines, in order
RECURSIVE FieldsOfLines(_)
FieldsOfLines(lines) ==
    IF lines = <<>> THEN <<>>
    ELSE Fields(Head(lines)) \o FieldsOfLines(Tail(lines))

\* TmuxinatorClient.ListProjects on the output of "tmuxinator list"
ListProjectsOn(isInstalled, fails, output) ==
    IF ~isInstalled THEN Answer(<<>>, FALSE)
    ELSE IF fails THEN Answer(<<>>, FALSE)
    ELSE Answer(FieldsOfLines(ProjectLines(Split(TrimSpace(output)))), FALSE)

\* TmuxinatorClient.ProjectExists
ProjectExistsOn(listed, n) ==
    IF listed.err THEN Answer(FALSE, TRUE)
    ELSE Answer(\E i \in 1..Len(listed.val) : listed.val[i] = n, FALSE)

\* the header line of the listing, cut to one byte: ":"
Header == <<58>>

\* outputs of "tmuxinator list": nothing, white space, a header alone, a
\* single line of names, and a header followed by lines of names
Listings ==
    { <<>>,
      <<NewLine>>,
      Header,
      Header \o <<NewLine>>,
      <<1>>,
      <<32, 1, 32, 1, 2, NewLine>>,
      Header \o <<NewLine, 1>>,
      Header \o <<NewLine, 1, 32, 1, 2, NewLine>>,
      Header \o <<NewLine, 1, 32, 32, 2, 32, NewLine, NewLine, 1, 2>>,
      <<NewLine>> \o Header \o <<NewLine, 2, 9, 1>>,
      Header \o <<NewLine, 32, NewLine>> }

ListProjects ==
    /\ pc = "done"
    /\ op' = "ListProjects"
    /\ arg' = <<>>
    /\ LET listed == ListProjectsOn(TmuxinatorIsInstalled, raw.listFails,
                                    raw.listing)
       IN  /\ projects' = listed.val
           /\ ret' = [err |-> IF listed.err THEN "list failed" ELSE "nil",
                      val |-> "-", about |-> <<>>]
    /\ se' = NoAnswers
    /\ cos' = NoAnswers
    /\ calls' = <<>>
    /\ cmds' = <<>>
    /\ pc' = "done"
    /\ UNCHANGED <<live, defaults, installed, portErr, inTmux, raw, listVars>>

ProjectExists ==
    /\ pc = "done"
    /\ op' = "ProjectExists"
    /\ \E n \in Names :
         LET listed == ListProjectsOn(TmuxinatorIsInstalled, raw.listFails,
                                      raw.listing)
             ans == ProjectExistsOn(listed, n)
         IN  /\ arg' = n
             /\ projects' = listed.val
             /\ ret' = [err |-> IF ans.err THEN "list failed" ELSE "nil",
                        val |-> IF ans.val THEN "true" ELSE "false",
                        about |-> <<>>]
    /\ se' = NoAnswers
    /\ cos' = NoAnswers
    /\ calls' = <<>>
    /\ cmds' = <<>>
    /\ pc' = "done"
    /\ UNCHANGED <<live, defaults, installed, portErr, inTmux, raw, listVars>>

\* the launcher adapter over every output of the listing command
InitLauncher ==
    /\ live = <<>>
    /\ projects = <<>>
    /\ defaults = <<>>
    /\ installed \in BOOLEAN
    /\ portErr = [list |-> FALSE, proj |-> FALSE, cfg |-> FALSE]
    /\ inTmux = FALSE
    /\ \E out \in Listings, fails \in BOOLEAN :
         raw = [NoRaw EXCEPT !.listing = out, !.listFails = fails]
    /\ listResult = NoResult
    /\ listErr = FALSE
    /\ prevResult = NoResult
    /\ listCalls = 0
    /\ Idle

NextLauncher == ListProjects \/ ProjectExists

SpecLauncher == InitLauncher /\ [][NextLauncher]_vars

\* ---------------------------------------------- the config adapter
\* "~"
Tilde == <<126>>

\* strings.HasPrefix
HasPrefix(s, prefix) ==
    Len(s) >= Len(prefix) /\ SubSeq(s, 1, Len(prefix)) = prefix

\* strings.Replace(s, old, new, 1) for a non-empty old: the first
\* occurrence of old gives way to new
RECURSIVE ReplaceFirst(_, _, _)
ReplaceFirst(s, old, new) ==
    IF Len(s) < Len(old) THEN s
    ELSE IF HasPrefix(s, old)
    THEN new \o SubSeq(s, Len(old) + 1, Len(s))
    ELSE <<Head(s)>> \o ReplaceFirst(Tail(s), old, new)

\* if strings.HasPrefix(dir, "~") { dir = strings.Replace(dir, "~", home, 1) }
ExpandHome(dir, home) ==
    IF HasPrefix(dir, Tilde) THEN ReplaceFirst(dir, Tilde, home) ELSE dir

\* home, _ := os.UserHomeDir(): the home directory, or "" with the error
\* that is dropped
UserHomeDirs == {TextHome, <<>>}

\* Loader.LoadDefaultSessions on the entries of the file
LoadDefaultSessionsOn(fails, file, home) ==
    IF fails THEN Answer(<<>>, TRUE)
    ELSE Answer([i \in 1..Len(file) |->
                   [file[i] EXCEPT !.Directory = ExpandHome(@, home)]],
                FALSE)

\* directories as written in the file: "", "~", "~/d", "/d", "/d~", "~~/d"
FileDirectories ==
    { <<>>, <<126>>, <<126, 47, 100>>, <<47, 100>>, <<47, 100, 126>>,
      <<126, 126, 47, 100>> }

FileEntries ==
    { SessionConfig(n, <<>>, d, <<>>) : n \in Names, d \in FileDirectories }

LoaderLoadDefaultSessions ==
    /\ pc = "done"
    /\ op' = "LoadDefaultSessions"
    /\ arg' = <<>>
    /\ LET loaded == LoadDefaultSessionsOn(raw.fileFails, raw.file, raw.home)
       IN  /\ defaults' = loaded.val
           /\ ret' = [err |-> IF loaded.err THEN "load failed" ELSE "nil",
                      val |-> "-", about |-> <<>>]
    /\ se' = NoAnswers
    /\ cos' = NoAnswers
    /\ calls' = <<>>
    /\ cmds' = <<>>
    /\ pc' = "done"
    /\ UNCHANGED <<live, projects, installed, portErr, inTmux, raw, listVars>>

LoaderGetSessionConfig ==
    /\ pc = "done"
    /\ op' = "GetSessionConfig"
    /\ \E n \in Names :
         LET loaded == LoadDefaultSessionsOn(raw.fileFails, raw.file,
                                             raw.home)
             ans == GetSessionConfigOn(loaded, n)
         IN  /\ arg' = n
             /\ defaults' = loaded.val
             /\ ret' = [err |-> IF loaded.err THEN "load failed"
                                ELSE IF ans.err THEN "not found in config"
                                ELSE "nil",
                        val |-> IF ans.err THEN "-" ELSE ans.val,
                        about |-> IF ans.err /\ ~loaded.err THEN n ELSE <<>>]
    /\ se' = NoAnswers
    /\ cos' = NoAnswers
    /\ calls' = <<>>
    /\ cmds' = <<>>
    /\ pc' = "done"
    /\ UNCHANGED <<live, projects, installed, portErr, inTmux, raw, listVars>>

\* the config adapter over every file and home directory
InitLoader ==
    /\ live = <<>>
    /\ projects = <<>>
    /\ defaults = <<>>
    /\ installed = FALSE
    /\ portErr = [list |-> FALSE, proj |-> FALSE, cfg |-> FALSE]
    /\ inTmux = FALSE
    /\ \E file \in BoundedSeq(FileEntries, MaxDefaults), fails \in BOOLEAN,
          home \in UserHomeDirs :
         raw = [NoRaw EXCEPT !.file = file, !.fileFails = fails,
                             !.home = home]
    /\ listResult = NoResult
    /\ listErr = FALSE
    /\ prevResult = NoResult
    /\ listCalls = 0
    /\ Idle

NextLoader == LoaderLoadDefaultSessions \/ LoaderGetSessionConfig

SpecLoader == InitLoader /\ [][NextLoader]_vars

\* ------------------------------------------------- properties of ListAll
Listed == listCalls >= 1

\* the names each source contributes, as answered by its port
LiveSource ==
    IF portErr.list THEN {} ELSE { live[i].name : i \in 1..Len(live) }

LauncherSource ==
    IF installed /\ ~portErr.proj
    THEN { projects[i] : i \in 1..Len(projects) } ELSE {}

DefaultSource ==
    IF portErr.cfg THEN {} ELSE { defaults[i].Name : i \in 1..Len(defaults) }

AllSources == LiveSource \cup LauncherSource \cup DefaultSource

\* the kind of the highest-precedence source holding n
HighestKind(n) ==
    IF n \in LiveSource THEN SessionTypeTmux
    ELSE IF n \in LauncherSource THEN SessionTypeTmuxinator
    ELSE SessionTypeDefault

RecordsNamed(n) == { i \in 1..Len(listResult) : listResult[i].Name = n }

RecordsOfType(t) == { i \in 1..Len(listResult) : listResult[i].Type = t }

\* s <= t in lexicographic order, stated position by position
LexLeq(s, t) ==
    \/ /\ Len(s) <= Len(t)
       /\ \A k \in 1..Len(s) : s[k] = t[k]
    \/ \E k \in 1..Len(s) :
         /\ k <= Len(t)
         /\ \A m \in 1..(k - 1) : s[m] = t[m]
         /\ s[k] < t[k]

\* C1: the names of the records ListAll returns are pairwise distinct, for
\* every answer of the three ports, repeated names in a list included.
C1_NamesDistinct ==
    Listed =>
      \A i, j \in 1..Len(listResult) :
        i # j => listResult[i].Name # listResult[j].Name

\* C2: a name held by more than one source is returned exactly once, with the
\* kind of the highest-precedence source that holds it.
C2_HighestPrecedenceOnce ==
    Listed =>
      \A n \in Names :
        (Cardinality({ S \in {1, 2, 3} :
             n \in (IF S = 1 THEN LiveSource
                    ELSE IF S = 2 THEN LauncherSource ELSE DefaultSource) })
           >= 2)
        => /\ Cardinality(RecordsNamed(n)) = 1
           /\ \A i \in RecordsNamed(n) : listResult[i].Type = HighestKind(n)

\* C3: the returned sequence is sorted ascending by name.
C3_SortedByName ==
    Listed =>
      \A i \in 1..(Len(listResult) - 1) :
        LexLeq(listResult[i].Name, listResult[i + 1].Name)

C3_Witness ==
    /\ Listed
    /\ Len(listResult) >= 3
    /\ Len(live) >= 2
    /\ StrLess(live[2].name, live[1].name)
    /\ ~portErr.list

\* C4: with no failing port and an available launcher, the names returned are
\* the union of the three sources, one record per name, each of the kind of
\* its highest-precedence source.
C4_UnionOfSources ==
    (Listed /\ installed /\ ~portErr.list /\ ~portErr.proj /\ ~portErr.cfg)
    => /\ NamesOf(listResult) = AllSources
       /\ Len(listResult) = Cardinality(AllSources)
       /\ Cardinality(RecordsOfType(SessionTypeTmux))
            = Cardinality(LiveSource)
       /\ Cardinality(RecordsOfType(SessionTypeTmuxinator))
            = Cardinality(LauncherSource \ LiveSource)
       /\ Cardinality(RecordsOfType(SessionTypeDefault))
            = Cardinality(DefaultSource \ (LiveSource \cup LauncherSource))

\* C5: two ListAll calls in a row over unchanged ports return the same
\* ordered sequence of records.
C5_ListAllRepeatable ==
    listCalls = 2 => listResult = prevResult

C5_Witness ==
    /\ listCalls = 2
    /\ Len(listResult) >= 3
    /\ Len(live) >= 1
    /\ ~portErr.list

\* the answers of the ports with every failed or unavailable source emptied
EmptiedLive == IF portErr.list THEN Answer(<<>>, FALSE) ELSE TmuxListSessions

EmptiedProjects ==
    IF installed /\ ~portErr.proj
    THEN TmuxinatorListProjects ELSE Answer(<<>>, FALSE)

EmptiedDefaults ==
    IF portErr.cfg THEN Answer(<<>>, FALSE) ELSE LoadDefaultSessions

\* C6: ListAll returns no error; a failed live listing counts as an empty
\* one, a failed or unavailable launcher and a failed config load take away
\* their own records only, and the rest is as if the source were empty.
C6_FailuresAbsorbed ==
    Listed =>
      /\ listErr = FALSE
      /\ portErr.list => RecordsOfType(SessionTypeTmux) = {}
      /\ (~installed \/ portErr.proj)
           => RecordsOfType(SessionTypeTmuxinator) = {}
      /\ portErr.cfg => RecordsOfType(SessionTypeDefault) = {}
      /\ listResult = ListAllOn(<<>>, EmptiedLive, TRUE, EmptiedProjects,
                                EmptiedDefaults).val

C6_Witness ==
    /\ Listed
    /\ portErr.list /\ Len(live) >= 1
    /\ installed /\ portErr.proj /\ Len(projects) >= 1
    /\ ~portErr.cfg /\ Len(listResult) >= 1

\* ----------------------- properties of CreateOrSwitch and GoToSession
CallsOf(c) == { i \in 1..Len(calls) : calls[i].call = c }

\* C7: once the multiplexer has confirmed the name as live, CreateOrSwitch
\* has issued the switch to that name and neither a create nor a launcher
\* start, whatever the launcher and the config hold for the name.
C7_LiveSwitchesOnly ==
    cos.live = "yes" =>
      /\ pc = "done"
      /\ Len(calls) = 1
      /\ calls[1].call = "SwitchToSession"
      /\ calls[1].name = arg
      /\ CallsOf("CreateSession") = {}
      /\ CallsOf("StartProject") = {}

C7_Witness ==
    /\ op = "CreateOrSwitch"
    /\ pc = "done"
    /\ cos.live = "yes"
    /\ installed
    /\ arg \in ProjectNames
    /\ arg \in NamesOf(defaults)

\* the probes of an operation all came back without a match
NoMatch(a) ==
    /\ a.live = "no"
    /\ a.proj \in {"no", "skip", "err"}
    /\ a.cfg \in {"no", "err"}

\* C8: CreateOrSwitch of a name that is not live, not a launcher project
\* and not a declared default issues one create call, for a session of that
\* name with an empty working directory, and no switch or launcher start.
C8_FallbackCreates ==
    (op = "CreateOrSwitch" /\ pc = "done" /\ NoMatch(cos)) =>
      /\ Len(calls) = 1
      /\ calls[1].call = "CreateSession"
      /\ calls[1].name = arg
      /\ calls[1].dir = <<>>
      /\ CallsOf("SwitchToSession") = {}
      /\ CallsOf("StartProject") = {}

C8_Witness ==
    /\ op = "CreateOrSwitch"
    /\ pc = "done"
    /\ cos = [live |-> "no", proj |-> "no", cfg |-> "no"]
    /\ Len(calls) = 1
    /\ ret.err = "nil"

\* C9: GoToSession of a name that matches no live session, no launcher
\* project and no declared default returns the not-found error naming the
\* session and issues no side-effecting port call.
C9_GoNotFound ==
    (op = "GoToSession" /\ NoMatch(se)) =>
      /\ pc = "done"
      /\ ret.err = "session not found"
      /\ ret.about = arg
      /\ calls = <<>>
      /\ cos = NoAnswers

C9_Witness ==
    /\ op = "GoToSession"
    /\ pc = "done"
    /\ se = [live |-> "no", proj |-> "no", cfg |-> "no"]
    /\ ret.err = "session not found"

\* C10: no execution of GoToSession reaches the create call of the last
\* branch of CreateOrSwitch (line 139), also when a port answers differently
\* between the probes of SessionExists and those of CreateOrSwitch.
C10_GoNeverFallsBack ==
    op = "GoToSession" =>
      \A i \in 1..Len(calls) : calls[i].line # 139

\* ------------------------------ properties of the branches of CreateOrSwitch
\* the declared default the config lookup resolves the name to
Resolved == FirstNamed(defaults, arg).val

Materialized ==
    /\ op \in {"CreateOrSwitch", "GoToSession"}
    /\ pc = "done"
    /\ cos.cfg = "yes"

\* C11: when CreateOrSwitch resolves the name to a declared default with a
\* launcher project reference, it starts that project through the launcher,
\* issues no create call and does not use the directory of the entry.
C11_RefDelegatesToLauncher ==
    (Materialized /\ Resolved.TmuxinatorProject # <<>>) =>
      /\ Len(calls) = 1
      /\ calls[1].call = "StartProject"
      /\ calls[1].name = Resolved.TmuxinatorProject
      /\ CallsOf("CreateSession") = {}

\* the launcher start of the second branch of CreateOrSwitch was issued
LauncherTaken == \E i \in 1..Len(calls) : calls[i].line = 127

\* C12: for a name that is not live, CreateOrSwitch starts the launcher
\* project of that name, with the inside-session flag and nothing else,
\* exactly when the launcher is available and its existence check answers
\* yes without error; an unavailable launcher, a negative answer and a
\* failed check all go on to the default lookup with no error returned.
C12_LauncherBranchIff ==
    (op \in {"CreateOrSwitch", "GoToSession"} /\ cos.live = "no"
       /\ cos.proj # "-") =>
      /\ (cos.proj = "yes") <=> LauncherTaken
      /\ cos.proj = "yes" =>
           /\ pc = "done"
           /\ calls = <<StartCall(arg, inTmux, 127)>>
           /\ cos.cfg = "-"
      /\ cos.proj \in {"skip", "no", "err"} =>
           /\ pc = "CheckDefault" \/ cos.cfg # "-"
           /\ pc = "CheckDefault" => (ret = NoReturn /\ calls = <<>>)
           /\ ret.err \in {"nil", "start failed", "create failed",
                         "switch failed"}
           /\ ret.err = "start failed" => calls[1].line = 150

C12_Witness ==
    /\ op = "CreateOrSwitch"
    /\ pc = "done"
    /\ cos.live = "no"
    /\ cos.proj = "err"
    /\ arg \in ProjectNames
    /\ Len(calls) = 1
    /\ ret.err = "nil"

\* C13: when CreateOrSwitch resolves the name to a declared default without
\* a launcher project reference, it issues one create call, for the name and
\* the directory of the entry, and returns the result of that call.
C13_DefaultCreatesInDirectory ==
    (Materialized /\ Resolved.TmuxinatorProject = <<>>) =>
      /\ Len(calls) = 1
      /\ calls[1].call = "CreateSession"
      /\ calls[1].line = 154
      /\ calls[1].name = Resolved.Name
      /\ calls[1].dir = Resolved.Directory
      /\ ret.err \in {"nil", "create failed", "switch failed"}
      /\ ret.err = "switch failed" => inTmux
      /\ ret.err = "nil" => Resolved.Name \in LiveNames

C13_Witness ==
    /\ Materialized
    /\ op = "CreateOrSwitch"
    /\ Resolved.TmuxinatorProject = <<>>
    /\ Resolved.Directory =
         <<47, 104, 111, 109, 101, 47, 117, 47, 100, 105, 114, 49>>
    /\ Len(calls) = 1
    /\ ret.err = "nil"

\* C14: an error of the live-existence check of CreateOrSwitch is returned
\* with no switch, start or create call issued; and when the name is live,
\* the result of the switch, an error included, is returned and no further
\* branch is tried.
C14_LiveErrorsReturned ==
    /\ cos.live = "err" =>
         /\ pc = "done"
         /\ ret.err = "failed to check if session exists"
         /\ calls = <<>>
         /\ cos.proj = "-" /\ cos.cfg = "-"
    /\ cos.live = "yes" =>
         /\ pc = "done"
         /\ ret.err \in {"nil", "switch failed"}
         /\ calls = <<SwitchCall(arg, inTmux, 118)>>
         /\ cos.proj = "-" /\ cos.cfg = "-"

C14_Witness ==
    /\ op = "CreateOrSwitch"
    /\ pc = "done"
    /\ cos.live = "err"
    /\ arg \in LiveNames
    /\ installed /\ arg \in ProjectNames
    /\ ret.err = "failed to check if session exists"

\* ------------------------------------------------ properties of the reads
\* C15: SessionExists returns true exactly when the live check answers yes,
\* or the launcher is available and confirms the name without error, or the
\* config lookup succeeds; it returns false with no error when every source
\* lacks the name or the launcher or config probe fails; and it returns an
\* error only when the live check fails.
C15_ExistsInAnySource ==
    (op = "SessionExists" /\ pc = "done") =>
      /\ (ret.val = "true") <=>
           (se.live = "yes" \/ se.proj = "yes" \/ se.cfg = "yes")
      /\ (se.live = "no" /\ se.proj \in {"no", "skip", "err"}
            /\ se.cfg \in {"no", "err"}) =>
           (ret.val = "false" /\ ret.err = "nil")
      /\ (ret.err # "nil") <=> (se.live = "err")
      /\ se.live = "err" => ret.val = "false"
      /\ ret.val \in {"true", "false"}

C15_Witness ==
    /\ op = "SessionExists"
    /\ pc = "done"
    /\ se = [live |-> "no", proj |-> "err", cfg |-> "err"]
    /\ arg \in ProjectNames
    /\ arg \in NamesOf(defaults)
    /\ ret.val = "false"
    /\ ret.err = "nil"

\* C16: SessionExists, GetSessionInfo and ListAll are reads: none of them
\* issues a create, switch, attach, switch-to-previous, delete, reload or
\* launcher start call.
C16_ReadsIssueNoCalls ==
    op \in {"SessionExists", "GetSessionInfo", "ListAll"} => calls = <<>>

C16_Witness ==
    /\ op = "SessionExists"
    /\ pc = "done"
    /\ se = [live |-> "no", proj |-> "skip", cfg |-> "yes"]
    /\ ret.val = "true"
    /\ calls = <<>>

\* ------------------------------------------- properties of GetSessionInfo
\* the window count of the live session named n
WindowsOf(n) == live[CHOOSE i \in 1..Len(live) : live[i].name = n].windows

\* "<n> (1 window)" and "<n> (<w> windows)", for a count of one digit
ExpectedLiveInfo(n, w) ==
    IF w = 1
    THEN n \o <<32, 40, 49, 32, 119, 105, 110, 100, 111, 119, 41>>
    ELSE n \o <<32, 40, 48 + w>>
           \o <<32, 119, 105, 110, 100, 111, 119, 115, 41>>

\* C17: for a session the live check confirms and the live listing holds,
\* GetSessionInfo returns "<name> (1 window)" when its window count is 1 and
\* "<name> (N windows)" for every other count N, 0 included, without asking
\* the launcher or the config about the name.
C17_LiveInfoWindowCount ==
    (op = "GetSessionInfo" /\ se.live = "listed") =>
      /\ pc = "done"
      /\ ret.err = "nil"
      /\ ret.val = ExpectedLiveInfo(arg, WindowsOf(arg))
      /\ se.proj = "-"
      /\ se.cfg = "-"

C17_Witness ==
    /\ op = "GetSessionInfo"
    /\ pc = "done"
    /\ se.live = "listed"
    /\ WindowsOf(arg) = 0
    /\ installed
    /\ arg \in ProjectNames
    /\ arg \in NamesOf(defaults)
    /\ ret.val = arg \o <<32, 40, 48, 32, 119, 105, 110, 100, 111, 119, 115, 41>>

\* C18: for a name that is not live, GetSessionInfo returns "tmuxinator
\* project" when the launcher is available and confirms the name; otherwise,
\* for a declared default, "default: <description>" or, with an empty
\* description, "default (not started)"; otherwise "new session"; and it
\* returns no error.
C18_InfoOfTheOtherTiers ==
    (op = "GetSessionInfo" /\ pc = "done" /\ se.live = "no") =>
      /\ ret.err = "nil"
      /\ se.proj = "yes" =>
           ret.val = <<116, 109, 117, 120, 105, 110, 97, 116, 111, 114, 32,
                     112, 114, 111, 106, 101, 99, 116>>
      /\ (se.proj \in {"no", "skip", "err"} /\ se.cfg = "yes") =>
           ret.val = IF Resolved.Description # <<>>
                     THEN <<100, 101, 102, 97, 117, 108, 116, 58, 32>>
                            \o Resolved.Description
                     ELSE <<100, 101, 102, 97, 117, 108, 116, 32, 40, 110,
                          111, 116, 32, 115, 116, 97, 114, 116, 101, 100,
                          41>>
      /\ (se.proj \in {"no", "skip", "err"} /\ se.cfg \in {"no", "err"}) =>
           ret.val = <<110, 101, 119, 32, 115, 101, 115, 115, 105, 111,
                     110>>

C18_Witness ==
    /\ op = "GetSessionInfo"
    /\ pc = "done"
    /\ se = [live |-> "no", proj |-> "no", cfg |-> "yes"]
    /\ ret.val = <<100, 101, 102, 97, 117, 108, 116, 58, 32, 84, 101, 115,
                 116, 32, 100, 101, 102, 97, 117, 108, 116>>

\* C19: whenever the live check of GetSessionInfo answers yes and the live
\* listing succeeds, GetSessionInfo returns the window-count text of that
\* session, also when sessions come and go between the check and the
\* listing.
C19_LiveInfoDespiteChanges ==
    (op = "GetSessionInfo" /\ pc = "done" /\ se.live \in {"listed", "gone"}) =>
      \E w \in WindowCounts : ret.val = ExpectedLiveInfo(arg, w)

\* ------------------------------------------- properties of DeleteSession
Kills == CallsOf("kill-session")

\* what DeleteSession has asked and issued, in every state
DeleteDelegates ==
    op = "DeleteSession" =>
      /\ calls[1] = DeleteCall(arg, 210)
      /\ \A i \in 2..Len(calls) : calls[i] = KillCall(arg, 201)
      /\ cos = NoAnswers
      /\ se.proj = "-"
      /\ se.cfg = "-"
      /\ se.live = "no" =>
           /\ pc = "done"
           /\ ret.err = "session does not exist"
           /\ ret.about = arg
           /\ Kills = {}
      /\ (pc = "done" /\ ret.err = "nil") =>
           /\ se.live = "yes"
           /\ Cardinality(Kills) = 1
           /\ arg \notin LiveNames

\* what a step of DeleteSession does to the live sessions
DeleteStep ==
    /\ (pc = "DeleteCheck" /\ pc' = "done") => live' = live
    /\ (pc = "DeleteKill" /\ pc' = "done" /\ ret'.err = "nil") =>
         /\ arg \in LiveNames
         /\ LiveNames' = LiveNames \ {arg}

\* C20: DeleteSession hands the name to the delete of the multiplexer and
\* asks no other port. For a name that is not live, also one that is a
\* launcher project or a declared default, it fails with the does-not-exist
\* error, issues no kill and leaves the live sessions as they are; when the
\* name is live and the kill succeeds, the name is no longer live.
C20_DeleteOnlyLive == [](DeleteDelegates) /\ [][DeleteStep]_vars

C20_Witness ==
    /\ op = "DeleteSession"
    /\ pc = "done"
    /\ se.live = "no"
    /\ ret.err = "session does not exist"
    /\ installed
    /\ arg \in ProjectNames
    /\ arg \in NamesOf(defaults)


\* ------------------------------------------ properties of the precedence
\* the kind ListAll reports for the name n on the ports as they stand
ListedKind(n) ==
    LET r == ListAllOn(NoResult, TmuxListSessions, TmuxinatorIsInstalled,
                       TmuxinatorListProjects, LoadDefaultSessions).val
        at == { i \in 1..Len(r) : r[i].Name = n }
    IN  IF at = {} THEN "none" ELSE r[CHOOSE i \in at : TRUE].Type

\* the tier of the branch of CreateOrSwitch that issued the call of line l
BranchKind(l) ==
    CASE l = 118 -> SessionTypeTmux
      [] l = 127 -> SessionTypeTmuxinator
      [] l \in {150, 154} -> SessionTypeDefault
      [] OTHER -> "none"

\* the tier a text of GetSessionInfo speaks of
InfoKind(n, text) ==
    IF \E w \in WindowCounts : text = ExpectedLiveInfo(n, w)
    THEN SessionTypeTmux
    ELSE IF text = <<116, 109, 117, 120, 105, 110, 97, 116, 111, 114, 32,
                     112, 114, 111, 106, 101, 99, 116>>
    THEN SessionTypeTmuxinator
    ELSE IF text = <<110, 101, 119, 32, 115, 101, 115, 115, 105, 111, 110>>
    THEN "none"
    ELSE SessionTypeDefault

ErrorFree(a) == a.live # "err" /\ a.proj # "err" /\ a.cfg # "err"

\* an operation returns in this step, every probe of it answered
Returns(o, a) == pc # "done" /\ pc' = "done" /\ op = o /\ ErrorFree(a)

PrecedenceAgrees ==
    /\ Returns("CreateOrSwitch", cos') =>
         BranchKind(calls'[1].line) = ListedKind(arg)
    /\ Returns("GetSessionInfo", se') =>
         (se'.live # "listerr" => InfoKind(arg, ret'.val) = ListedKind(arg))
    /\ Returns("SessionExists", se') =>
         ((ret'.val = "true") <=> (ListedKind(arg) # "none"))

\* C21: over ports that answer without error and do not change while an
\* operation runs, the branch CreateOrSwitch takes for a name, the tier
\* GetSessionInfo reports for it and the answer of SessionExists all agree
\* with the kind ListAll reports for the name, or with its absence.
C21_PrecedenceAgrees == [][PrecedenceAgrees]_vars

C21_Witness ==
    /\ op = "CreateOrSwitch"
    /\ pc = "done"
    /\ cos = [live |-> "no", proj |-> "yes", cfg |-> "-"]
    /\ calls[1].line = 127
    /\ arg \in NamesOf(defaults)


\* ------------------------------------- further properties of ListAll
\* C22: in every record ListAll returns, IsActive is true exactly when the
\* type is tmux: the records made from the launcher and from the declared
\* defaults are inactive, and the records of the live listing, all of them,
\* are of type tmux and active.
C22_ActiveIffLive ==
    Listed =>
      /\ \A i \in 1..Len(listResult) :
           listResult[i].IsActive <=> (listResult[i].Type = SessionTypeTmux)
      /\ Cardinality(RecordsOfType(SessionTypeTmux)) =
           (IF portErr.list THEN 0 ELSE Len(live))

C22_Witness ==
    /\ Listed
    /\ RecordsOfType(SessionTypeTmux) # {}
    /\ RecordsOfType(SessionTypeTmuxinator) # {}
    /\ RecordsOfType(SessionTypeDefault) # {}


\* ------------------------------------------ properties of the adapters
\* the output has no line break between two bytes that are not white space
FewerThanTwoLines(out) ==
    ~ \E i, j, k \in 1..Len(out) :
        /\ i < j /\ j < k
        /\ ~IsSpace(out[i]) /\ out[j] = 10 /\ ~IsSpace(out[k])

NothingListed ==
    \/ ~installed
    \/ raw.listFails
    \/ FewerThanTwoLines(raw.listing)

\* C23: ListProjects of the launcher adapter returns an empty list and no
\* error when the output of the listing is empty or has fewer than two
\* lines, when the launcher is not installed and when the listing command
\* fails; ProjectExists then answers false, and it never returns an error.
C23_ShortListingIsEmpty ==
    op \in {"ListProjects", "ProjectExists"} =>
      /\ ret.err = "nil"
      /\ NothingListed =>
           /\ projects = <<>>
           /\ op = "ProjectExists" => ret.val = "false"

C23_Witness ==
    /\ op = "ProjectExists"
    /\ installed
    /\ ~raw.listFails
    /\ raw.listing = <<1>>
    /\ arg = <<1>>
    /\ ret.val = "false"


\* the directory d of the file and the directory e returned for it
Expanded(d, e) ==
    /\ (d # <<>> /\ d[1] = 126) => e = raw.home \o Tail(d)
    /\ (d = <<>> \/ d[1] # 126) => e = d
    /\ e = <<>> \/ e[1] # 126

\* C24: every entry LoadDefaultSessions and GetSessionConfig of the config
\* adapter return has its home shorthand expanded: a leading "~" of the
\* directory in the file is replaced, once, by the home directory, any other
\* directory is returned as written, and no returned directory begins with
\* "~".
C24_HomeExpanded ==
    (op \in {"LoadDefaultSessions", "GetSessionConfig"} /\ ~raw.fileFails) =>
      /\ Len(defaults) = Len(raw.file)
      /\ \A i \in 1..Len(defaults) :
           Expanded(raw.file[i].Directory, defaults[i].Directory)
      /\ (op = "GetSessionConfig" /\ ret.err = "nil") =>
           /\ ret.val.Name = arg
           /\ \E i \in 1..Len(defaults) : ret.val = defaults[i]


\* --------------------------------------------- properties of the commands
\* C25: "go <name>" opens the named session when a source holds it and
\* shows the picker otherwise; the picker comes up only because the session
\* does not exist, and the command never creates a session of that name as
\* a new plain session.
C25_PickerOnlyWhenMissing ==
    /\ op = "showInteractiveList" =>
         (ret.err = "session not found" /\ NoMatch(se) /\ calls = <<>>)
    /\ op \in {"GoToSession", "showInteractiveList"} =>
         \A i \in 1..Len(calls) : calls[i].line # 139
    /\ (op = "GoToSession" /\ pc = "done" /\ ~NoMatch(se)
          /\ se.live # "err") =>
         Len(calls) = 1


\* the flag the engine handed to the call, as the adapter's command shows it
SwitchedBy(c) == IF c.fromTmux THEN "switch-client" ELSE "attach-session"

\* C26: every SwitchToSession and StartProject call of the engine carries
\* the current inside-session detection, and the one command the adapter
\* runs for a SwitchToSession call is switch-client to the name when that
\* flag is true and attach-session to the name when it is false.
C26_AttachOrSwitchByDetection ==
    /\ \A i \in 1..Len(calls) :
         calls[i].call \in {"SwitchToSession", "StartProject"} =>
           calls[i].fromTmux = inTmux
    /\ (Len(calls) = 1 /\ calls[1].call = "SwitchToSession") =>
         /\ Len(cmds) = 1
         /\ cmds[1].cmd = SwitchedBy(calls[1])
         /\ cmds[1].name = calls[1].name
         /\ (cmds[1].cmd = "switch-client") <=> inTmux
         /\ (cmds[1].cmd = "attach-session") <=> ~inTmux

C26_Witness ==
    /\ op = "CreateOrSwitch"
    /\ pc = "done"
    /\ inTmux
    /\ Len(calls) = 1
    /\ calls[1] = SwitchCall(arg, TRUE, 118)
    /\ cmds = <<Ran("switch-client", arg, <<>>, FALSE, TRUE)>>
    /\ ret.err = "nil"


\* the operation has issued its one create or start call
Brought ==
    Len(calls) = 1 /\ calls[1].call \in {"CreateSession", "StartProject"}

\* the command that brings the session of the call c up
BringsUp(c) ==
    IF c.call = "CreateSession" THEN "new-session" ELSE "tmuxinator start"

\* C27: from inside a session, a create or start call first runs the
\* detached create or start command and runs switch-client to the session
\* second, and only when the first command succeeded; when the first
\* command fails its error is returned and nothing else is run.  From
\* outside a session the call runs the one attached create or start command
\* and no switch.
C27_DetachedThenSwitch ==
    Brought =>
      /\ Len(cmds) >= 1
      /\ cmds[1].cmd = BringsUp(calls[1])
      /\ cmds[1].name = calls[1].name
      /\ cmds[1].dir = calls[1].dir
      /\ cmds[1].detached = inTmux
      /\ inTmux =>
           /\ Len(cmds) = (IF cmds[1].ok THEN 2 ELSE 1)
           /\ cmds[1].ok =>
                /\ cmds[2].cmd = "switch-client"
                /\ cmds[2].name = calls[1].name
                /\ ret.err = (IF cmds[2].ok THEN "nil" ELSE "switch failed")
           /\ ~cmds[1].ok => ret.err \in {"create failed", "start failed"}
      /\ ~inTmux =>
           /\ Len(cmds) = 1
           /\ (ret.err = "nil") <=> cmds[1].ok

C27_Witness ==
    /\ Brought
    /\ op = "CreateOrSwitch"
    /\ inTmux
    /\ calls[1].call = "CreateSession"
    /\ Len(cmds) = 2
    /\ cmds[1].ok
    /\ cmds[2] = Ran("switch-client", arg, <<>>, FALSE, TRUE)
    /\ arg \in LiveNames
    /\ ret.err = "nil"


\* the positions of CreateOrSwitch in the order of its text; 5: returned
Rank(p) ==
    CASE p = "CheckLive" -> 1
      [] p = "CheckLauncher" -> 2
      [] p = "CheckDefault" -> 3
      [] p = "Fallback" -> 4
      [] OTHER -> 5

\* a step of a running CreateOrSwitch moves to a later position
ForwardOnly == pc # "done" => (pc' = pc \/ Rank(pc') > Rank(pc))

ActionCalls == {"SwitchToSession", "StartProject", "CreateSession"}

\* no call before the return; at the return one call when the live check
\* answered and none when it failed
OneAction ==
    op = "CreateOrSwitch" =>
      /\ Len(calls) <= 1
      /\ pc # "done" => (calls = <<>> /\ cos.live \in {"-", "no"})
      /\ pc = "done" =>
           /\ cos.live \in {"yes", "no", "err"}
           /\ cos.live \in {"yes", "no"} =>
                (Len(calls) = 1 /\ calls[1].call \in ActionCalls)
           /\ cos.live = "err" =>
                (calls = <<>> /\ ret.err = "failed to check if session exists")

\* C28: a running CreateOrSwitch only moves forward through CheckLive,
\* CheckLauncher, CheckDefault and Fallback and always returns; it has
\* issued no switch, start or create call before it returns, exactly one
\* when it returns after the live check answered, and none when the live
\* check failed.
C28_ForwardPassOneAction ==
    /\ [](OneAction)
    /\ [][ForwardOnly]_vars
    /\ (pc # "done") ~> (pc = "done")

C28_Witness ==
    /\ op = "CreateOrSwitch"
    /\ pc = "done"
    /\ cos = [live |-> "no", proj |-> "no", cfg |-> "no"]
    /\ Len(calls) = 1
    /\ calls[1].line = 139


\* the answers an operation notes when it leaves the launcher unasked
Unasked == {"-", "skip"}

\* a ListAll has just returned
ListReturned ==
    op' \in {"ListAll", "showInteractiveList"} /\ listVars' # listVars

\* a step taken while the launcher reports itself unavailable
StepWithoutLauncher ==
    ~installed =>
      /\ cos'.proj # cos.proj => cos'.proj \in Unasked
      /\ se'.proj # se.proj => se'.proj \in Unasked
      /\ calls' # calls =>
           \A i \in 1..Len(calls') : calls'[i].call # "StartProject"
      /\ cmds' # cmds =>
           \A i \in 1..Len(cmds') : cmds'[i].cmd # "tmuxinator start"
      /\ ListReturned =>
           \A i \in 1..Len(listResult') :
             listResult'[i].Type # SessionTypeTmuxinator

====
